---- MODULE Spec2Model ----
(***************************************************************************)
(* PM-TDD YAML spec runner (run-spec.js with draft/active status).         *)
(* main() walks the spec files given on the command line; runSpec() loads  *)
(* one file, opens a browser, runs every scenario step by step, takes a    *)
(* screenshot when a scenario fails, closes the browser and returns        *)
(* {passed, failed, status}; main folds the results into a summary keyed   *)
(* by status and derives the exit code.                                    *)
(*                                                                         *)
(* Strings that the code transforms (paths, scenario names, file names)    *)
(* are sequences of one-character strings.  The content of a spec file is  *)
(* read when the code first reads it: the document at load, a scenario     *)
(* when the for-loop reaches it, a step when it is executed.  Launching    *)
(* the browser and making the screenshots directory are taken to succeed;  *)
(* a step, the screenshot in the catch block and the load can each raise.  *)
(***************************************************************************)
EXTENDS Integers, Sequences, FiniteSets, TLC

\* ------------------------------------------------------------- bounds
MaxSpecs == 2
MaxScenarios == 2
MaxSteps == 2

\* ------------------------------------------------------------- values
\* A field that the YAML document does not hold (JavaScript undefined).
Missing == "undefined"

\* Values the status field of a parsed document can hold: absent, the empty
\* string (falsy), the two lifecycle values, another string, and a truthy
\* value that is not a string (a number, a list).
StatusInputs == {Missing, "", "draft", "active", "wip", "<non-string>"}

\* Ways lines 15-16 can end: the file is read and parsed to a mapping, the
\* file cannot be read, the text is no YAML, the document is empty (null).
LoadInputs == {"ok", "io_error", "parse_error", "null_document"}

\* The cases of executeStep's switch.
SupportedActions ==
    {"goto", "click", "click_button", "click_link", "fill", "fill_field",
     "select", "check", "uncheck", "hover", "press", "wait", "wait_for",
     "assert_visible", "assert_hidden", "assert_url", "assert_enabled",
     "assert_disabled", "screenshot"}

\* Steps as Object.entries sees them: the keys of the mapping, in order.
StepInputs ==
    {<< >>, <<"goto">>, <<"assert_url">>, <<"foo">>, <<"goto", "foo">>}

\* Scenario names; a scenario may have none (defined = FALSE).
NameTexts ==
    { <<"A">>,
      <<"a", " ", "B">>,
      <<"L", "o", "g", " ", "\t", "I", "n">>,
      <<" ", "x", "-", "Y", " ">> }
ScenarioNames ==
    {[defined |-> TRUE, text |-> n] : n \in NameTexts}
        \cup {[defined |-> FALSE, text |-> << >>]}

\* An array field of the document: present with a length, or absent.
ArrayInputs(max) ==
    {[defined |-> TRUE, length |-> n] : n \in 0..max}
        \cup {[defined |-> FALSE, length |-> 0]}
NoArray == [defined |-> TRUE, length |-> 0]

\* Absolute paths main hands to runSpec, by position on the command line.
ArgPath(n) ==
    IF n % 2 = 1
    THEN <<"/", "w", "/", "s", "p", "e", "c", "s", "/",
           "L", "o", "g", ".", "y", "a", "m", "l">>
    ELSE <<"/", "w", "/", "s", "p", "e", "c", "s", "/",
           "p", "w", ".", "y", "m", "l">>

\* ------------------------------------------------------------- strings
IsSpace(c) == c \in {" ", "\t", "\n", "\r"}

ToLowerChar(c) ==
    CASE c = "A" -> "a" [] c = "B" -> "b" [] c = "I" -> "i"
      [] c = "L" -> "l" [] c = "Y" -> "y" [] OTHER -> c

ToLowerCase(str) == [n \in 1..Len(str) |-> ToLowerChar(str[n])]

\* str.replace(/\s/g, '-'): every whitespace character becomes a '-'.
ReplaceEachWhitespace(str) ==
    [n \in 1..Len(str) |-> IF IsSpace(str[n]) THEN "-" ELSE str[n]]

\* str.replace(/\s+/g, '-'): every maximal run of whitespace becomes one '-'.
RECURSIVE ReplaceWhitespaceRuns(_)
ReplaceWhitespaceRuns(str) ==
    IF str = << >> THEN << >>
    ELSE IF IsSpace(Head(str))
         THEN IF Len(str) > 1 /\ IsSpace(str[2])
              THEN ReplaceWhitespaceRuns(Tail(str))
              ELSE <<"-">> \o ReplaceWhitespaceRuns(Tail(str))
         ELSE <<Head(str)>> \o ReplaceWhitespaceRuns(Tail(str))

EndsWith(str, suffix) ==
    /\ Len(str) >= Len(suffix)
    /\ SubSeq(str, Len(str) - Len(suffix) + 1, Len(str)) = suffix

\* path.basename(p, ext): the part after the last '/', without ext when the
\* part ends with ext and is longer than it.
Basename(p, ext) ==
    LET slashes == {n \in 1..Len(p) : p[n] = "/"}
        from == IF slashes = {} THEN 1
                ELSE (CHOOSE n \in slashes : \A m \in slashes : m <= n) + 1
        base == SubSeq(p, from, Len(p))
    IN IF EndsWith(base, ext) /\ Len(base) > Len(ext)
       THEN SubSeq(base, 1, Len(base) - Len(ext))
       ELSE base

YamlExt == <<".", "y", "a", "m", "l">>
PngExt == <<".", "p", "n", "g">>

ScreenshotName(specPath, scenarioName) ==
    Basename(specPath, YamlExt) \o <<"-">>
        \o ToLowerCase(ReplaceWhitespaceRuns(scenarioName)) \o PngExt

\* ------------------------------------------------------------- state
VARIABLES
    pc,            \* where main / runSpec stands
    nSpecs,        \* args.length
    i,             \* position of specFile in specFiles (1-based)
    results,       \* main's summary, keyed by status
    exitCode,      \* argument of process.exit, -1 while running
    browsersOpen,  \* launched browsers not yet closed
    status,        \* runSpec: status
    nScen,         \* runSpec: spec.scenarios (defined or not, its length)
    s,             \* runSpec: position of scenario in spec.scenarios
    passed,        \* runSpec: passed
    failed,        \* runSpec: failed
    nSteps,        \* runSpec: scenario.steps (defined or not, its length)
    k,             \* runSpec: position of step in scenario.steps
    trace,         \* what happened in the scenario at hand, in order
    lastCall,      \* the last executeStep call: its step and how it ended
    shot,          \* the file name of the last failure screenshot
    stepFails,     \* scenarios of the spec at hand in which a step raised
    last,          \* how the last finished spec ended
    loadFails,     \* specs that failed to load or parse
    expected,      \* sums of the SpecResults returned, by status
    activeScenarioFailed,  \* a scenario of an active spec has failed
    processed      \* the files runSpec was called for, in call order

vars == <<pc, nSpecs, i, results, exitCode, browsersOpen, status, nScen, s,
          passed, failed, nSteps, k, trace, lastCall, shot, stepFails, last,
          loadFails, expected, activeScenarioFailed, processed>>

NoCall == [step |-> << >>, ok |-> TRUE, kind |-> "none", names |-> "none"]
NoShot == << >>
NoLast == [file |-> 0, outcome |-> "none", status |-> "none", passed |-> 0,
           failed |-> 0, ran |-> 0, nScen |-> NoArray, stepFails |-> 0]
EmptySummary == [active |-> [passed |-> 0, failed |-> 0],
                 draft  |-> [passed |-> 0, failed |-> 0]]

Init ==
    /\ pc = "start"
    /\ nSpecs \in 0..MaxSpecs
    /\ i = 1
    /\ results = EmptySummary
    /\ exitCode = -1
    /\ browsersOpen = 0
    /\ status = "none"
    /\ nScen = NoArray
    /\ s = 1
    /\ passed = 0
    /\ failed = 0
    /\ nSteps = NoArray
    /\ k = 1
    /\ trace = << >>
    /\ lastCall = NoCall
    /\ shot = NoShot
    /\ stepFails = 0
    /\ last = NoLast
    /\ loadFails = 0
    /\ expected = EmptySummary
    /\ activeScenarioFailed = FALSE
    /\ processed = << >>

\* ------------------------------------------------------------- main
\* A catch that books the failure under the active bucket.
CatchRunSpecError_Active(r) == [r EXCEPT !.active.failed = @ + 1]

\* Line 195: what main's catch does to the summary.
CatchRunSpecError(r) == [r EXCEPT !.draft.failed = @ + 1]

\* Lines 191-192: fold a SpecResult into the summary.  results[status] is
\* undefined for a status that is no key of the summary, and reading
\* .passed of it raises a TypeError inside main's try.
Aggregate(r, result) ==
    IF result.status \in DOMAIN r
    THEN [r EXCEPT ![result.status].passed = @ + result.passed,
                   ![result.status].failed = @ + result.failed]
    ELSE CatchRunSpecError(r)

\* An exit policy under which any failure, draft ones too, fails the build.
ExitCodeOf_AnyFailure(r) ==
    IF r.active.failed > 0 \/ r.draft.failed > 0 THEN 1 ELSE 0

\* Lines 208-217.
ExitCodeOf(r) ==
    IF r.active.failed > 0 THEN 1
    ELSE IF r.draft.failed > 0 THEN 0
    ELSE 0

\* Line 18: spec.status || 'draft'.
DefaultStatus(raw) == IF raw \in {Missing, ""} THEN "draft" ELSE raw

\* Lines 15-21 raise: the file cannot be read or parsed, the document is
\* null (spec.status), or status has no toUpperCase.
LoadRaises(load, raw) == load # "ok" \/ raw = "<non-string>"

\* ------------------------------------------------------------- executeStep
\* Lines 61-168.  The ways a call can end: the first entry of the step
\* decides; a step without entries cannot be destructured; a supported
\* action ends as the browser engine (or the URL check) decides.
StepError(kind, names) == [ok |-> FALSE, kind |-> kind, names |-> names]
StepDone == [ok |-> TRUE, kind |-> "none", names |-> "none"]

ExecuteStep(step) ==
    IF Len(step) = 0
    THEN {StepError("TypeError", "none")}
    ELSE LET action == step[1] IN
         IF action \notin SupportedActions
         THEN {StepError("Unknown action", action)}
         ELSE IF action = "assert_url"
              THEN {StepDone, StepError("URL does not contain", "none")}
              ELSE {StepDone, StepError("engine", "none")}

\* A step loop that swallows a step's error and goes on.
AfterStep_Continue(out) == "steps"

\* Lines 38-44: where the scenario goes after a step: on to the next step,
\* or into the catch block.
AfterStep(out) == IF out.ok THEN "steps" ELSE "catch"

\* ------------------------------------------------------------- actions
ResetLocals ==
    /\ status' = "none"
    /\ nScen' = NoArray
    /\ s' = 1
    /\ passed' = 0
    /\ failed' = 0
    /\ nSteps' = NoArray
    /\ k' = 1
    /\ stepFails' = 0
    /\ trace' = << >>
    /\ lastCall' = NoCall
    /\ shot' = NoShot

\* An error leaves runSpec and reaches main's catch (lines 193-196); the
\* browser, if launched, stays as it is.
Escape(outcome) ==
    /\ results' = CatchRunSpecError(results)
    /\ i' = i + 1
    /\ pc' = "loop"
    /\ last' = [file |-> i, outcome |-> outcome, status |-> status,
                passed |-> passed, failed |-> failed, ran |-> s - 1,
                nScen |-> nScen, stepFails |-> stepFails]
    /\ ResetLocals
    /\ UNCHANGED <<nSpecs, exitCode, browsersOpen, expected,
                   activeScenarioFailed, processed>>

\* Lines 174-178.
Usage ==
    /\ pc = "start"
    /\ nSpecs = 0
    /\ exitCode' = 1
    /\ pc' = "exited"
    /\ UNCHANGED <<nSpecs, i, results, browsersOpen, status, nScen, s,
                   passed, failed, nSteps, k, trace, lastCall, shot, stepFails,
                   last, loadFails, expected, activeScenarioFailed, processed>>

\* Lines 181-186.
Begin ==
    /\ pc = "start"
    /\ nSpecs > 0
    /\ results' = EmptySummary
    /\ pc' = "loop"
    /\ UNCHANGED <<nSpecs, i, exitCode, browsersOpen, status, nScen, s,
                   passed, failed, nSteps, k, trace, lastCall, shot, stepFails,
                   last, loadFails, expected, activeScenarioFailed, processed>>

\* Lines 188-190 and 14-21: runSpec loads the next file.
LoadSpec ==
    /\ pc = "loop"
    /\ i <= nSpecs
    /\ \E load \in LoadInputs, raw \in StatusInputs,
          scen \in ArrayInputs(MaxScenarios) :
        /\ ~LoadRaises(load, raw)
        /\ status' = DefaultStatus(raw)
        /\ nScen' = scen
    /\ pc' = "launch"
    /\ trace' = << >>
    /\ lastCall' = NoCall
    /\ shot' = NoShot
    /\ last' = NoLast
    /\ processed' = Append(processed, i)
    /\ UNCHANGED <<nSpecs, i, results, exitCode, browsersOpen, s, passed,
                   failed, nSteps, k, stepFails, loadFails, expected,
                   activeScenarioFailed>>

\* Lines 15-21 raise and main's catch (193-196) takes over.
LoadFails ==
    /\ pc = "loop"
    /\ i <= nSpecs
    /\ \E load \in LoadInputs, raw \in StatusInputs :
        /\ LoadRaises(load, raw)
        /\ last' = [NoLast EXCEPT !.file = i, !.outcome = "loadfail",
                                  !.status = raw]
    /\ results' = CatchRunSpecError(results)
    /\ i' = i + 1
    /\ loadFails' = loadFails + 1
    /\ trace' = << >>
    /\ lastCall' = NoCall
    /\ shot' = NoShot
    /\ processed' = Append(processed, i)
    /\ UNCHANGED <<pc, nSpecs, exitCode, browsersOpen, status, nScen, s,
                   passed, failed, nSteps, k, stepFails, expected,
                   activeScenarioFailed>>

\* Lines 23-33: the browser is launched and the page opened; the screenshots
\* directory exists or is made.
Launch ==
    /\ pc = "launch"
    /\ browsersOpen' = browsersOpen + 1
    /\ s' = 1
    /\ passed' = 0
    /\ failed' = 0
    /\ pc' = "for_scenario"
    /\ UNCHANGED <<nSpecs, i, results, exitCode, status, nScen, nSteps, k,
                   trace, lastCall, shot, stepFails, last, loadFails,
                   expected, activeScenarioFailed, processed>>

\* Line 35 with spec.scenarios undefined: not iterable, outside any try.
ScenariosNotIterable ==
    /\ pc = "for_scenario"
    /\ ~nScen.defined
    /\ Escape("escaped")
    /\ UNCHANGED loadFails

\* Lines 35-38: the loop takes the next scenario.
NextScenario ==
    /\ pc = "for_scenario"
    /\ nScen.defined
    /\ s <= nScen.length
    /\ \E steps \in ArrayInputs(MaxSteps) : nSteps' = steps
    /\ k' = 1
    /\ trace' = << >>
    /\ lastCall' = NoCall
    /\ shot' = NoShot
    /\ pc' = "steps"
    /\ UNCHANGED <<nSpecs, i, results, exitCode, browsersOpen, status, nScen,
                   s, passed, failed, stepFails, last, loadFails, expected,
                   activeScenarioFailed, processed>>

\* Line 39 with scenario.steps undefined: not iterable, inside the try.
StepsNotIterable ==
    /\ pc = "steps"
    /\ ~nSteps.defined
    /\ trace' = Append(trace, "not_iterable")
    /\ pc' = "catch"
    /\ activeScenarioFailed' = (activeScenarioFailed \/ status = "active")
    /\ UNCHANGED <<nSpecs, i, results, exitCode, browsersOpen, status, nScen,
                   s, passed, failed, nSteps, k, lastCall, shot, stepFails,
                   last, loadFails, expected, processed>>

\* Lines 39-40: one executeStep call.
ExecuteStepCall ==
    /\ pc = "steps"
    /\ nSteps.defined
    /\ k <= nSteps.length
    /\ \E step \in StepInputs : \E out \in ExecuteStep(step) :
        /\ lastCall' = [step |-> step, ok |-> out.ok, kind |-> out.kind,
                        names |-> out.names]
        /\ trace' = Append(trace, IF out.ok THEN "ok" ELSE "raise")
        /\ pc' = AfterStep(out)
        /\ k' = IF AfterStep(out) = "steps" THEN k + 1 ELSE k
        /\ stepFails' = IF out.ok THEN stepFails ELSE stepFails + 1
        /\ activeScenarioFailed' =
               (activeScenarioFailed \/ (~out.ok /\ status = "active"))
    /\ UNCHANGED <<nSpecs, i, results, exitCode, browsersOpen, status, nScen,
                   s, passed, failed, nSteps, shot, last, loadFails, expected,
                   processed>>

\* Lines 42-43: every step is done.
ScenarioPassed ==
    /\ pc = "steps"
    /\ nSteps.defined
    /\ k > nSteps.length
    /\ passed' = passed + 1
    /\ trace' = Append(trace, "pass")
    /\ lastCall' = NoCall
    /\ s' = s + 1
    /\ pc' = "for_scenario"
    /\ UNCHANGED <<nSpecs, i, results, exitCode, browsersOpen, status, nScen,
                   failed, nSteps, k, shot, stepFails, last, loadFails,
                   expected, activeScenarioFailed, processed>>

\* Lines 44-53: the catch block takes the screenshot and counts the failure.
ScenarioFailed ==
    /\ pc = "catch"
    /\ \E name \in ScenarioNames :
        /\ name.defined
        /\ shot' = ScreenshotName(ArgPath(i), name.text)
    /\ trace' = trace \o <<"shot", "fail">>
    /\ failed' = failed + 1
    /\ lastCall' = NoCall
    /\ s' = s + 1
    /\ pc' = "for_scenario"
    /\ UNCHANGED <<nSpecs, i, results, exitCode, browsersOpen, status, nScen,
                   passed, nSteps, k, stepFails, last, loadFails, expected,
                   activeScenarioFailed, processed>>

\* Line 46 with scenario.name undefined (no replace), or line 48 with the
\* engine refusing the screenshot: the catch block itself raises.
CatchBlockRaises ==
    /\ pc = "catch"
    /\ Escape("escaped")
    /\ UNCHANGED loadFails

\* Lines 35, 56-58 and 190-192: the loop is over, the browser is closed, the
\* SpecResult returned and folded into the summary.
ReturnResult ==
    /\ pc = "for_scenario"
    /\ nScen.defined
    /\ s > nScen.length
    /\ browsersOpen' = browsersOpen - 1
    /\ LET result == [passed |-> passed, failed |-> failed, status |-> status]
       IN /\ results' = Aggregate(results, result)
          /\ expected' = IF status \in DOMAIN expected
                         THEN [expected EXCEPT ![status].passed = @ + passed,
                                               ![status].failed = @ + failed]
                         ELSE expected
          /\ last' = [file |-> i, outcome |-> "returned", status |-> status,
                      passed |-> passed, failed |-> failed, ran |-> s - 1,
                      nScen |-> nScen, stepFails |-> stepFails]
    /\ i' = i + 1
    /\ pc' = "loop"
    /\ ResetLocals
    /\ UNCHANGED <<nSpecs, exitCode, loadFails, activeScenarioFailed,
                   processed>>

\* Lines 199-217.
Summary ==
    /\ pc = "loop"
    /\ i > nSpecs
    /\ exitCode' = ExitCodeOf(results)
    /\ pc' = "exited"
    /\ UNCHANGED <<nSpecs, i, results, browsersOpen, status, nScen, s,
                   passed, failed, nSteps, k, trace, lastCall, shot, stepFails,
                   last, loadFails, expected, activeScenarioFailed, processed>>

Next ==
    \/ Usage
    \/ Begin
    \/ LoadSpec
    \/ LoadFails
    \/ Launch
    \/ ScenariosNotIterable
    \/ NextScenario
    \/ StepsNotIterable
    \/ ExecuteStepCall
    \/ ScenarioPassed
    \/ ScenarioFailed
    \/ CatchBlockRaises
    \/ ReturnResult
    \/ Summary

Spec == Init /\ [][Next]_vars

\* ------------------------------------------------------------- properties
Events(kinds) == {p \in 1..Len(trace) : trace[p] \in kinds}
Ran == pc = "exited" /\ nSpecs > 0

\* C1: when main exits after running its spec files, the exit code is 1 if
\* a scenario of an active-status spec failed, and 0 if none did, whatever
\* happened to the draft specs.
C1_ExitCodeFollowsActiveScenarios ==
    Ran => /\ (activeScenarioFailed => exitCode = 1)
           /\ (~activeScenarioFailed => exitCode = 0)

\* C2 as stated: a run in which a spec file failed to load or parse exits
\* with 1, and a run exits with 0 only if no active scenario failed and no
\* file failed to load.
C2_LoadFailureExitsOne ==
    Ran => /\ (loadFails > 0 => exitCode = 1)
           /\ (exitCode = 0 => loadFails = 0 /\ ~activeScenarioFailed)

\* C2 amended: a spec that fails to load or parse counts as a draft failure
\* only; the exit code is 1 exactly when an active-status spec returned a
\* SpecResult with a failed scenario, and 0 otherwise, load failures or not.
C2_ExitCodeIgnoresLoadFailures ==
    Ran => exitCode = (IF expected.active.failed > 0 THEN 1 ELSE 0)

C2_Witness ==
    /\ Ran
    /\ loadFails > 0
    /\ expected.active.passed > 0
    /\ exitCode = 0

\* C3: when runSpec raises while loading or parsing, main adds exactly one
\* failure to the draft bucket, changes no other counter, opens no browser
\* and goes on with the next file; every file given is processed, in order.
C3_LoadFailureIsOneDraftFailure ==
    /\ [][loadFails' # loadFails =>
            /\ loadFails' = loadFails + 1
            /\ results'.draft.failed = results.draft.failed + 1
            /\ results'.draft.passed = results.draft.passed
            /\ results'.active = results.active
            /\ browsersOpen' = browsersOpen
            /\ i' = i + 1
            /\ pc' = "loop"]_vars
    /\ [](Ran => processed = [n \in 1..nSpecs |-> n])

C3_Witness ==
    /\ Ran
    /\ loadFails = 1
    /\ results.draft.failed = 1
    /\ last.file = 2
    /\ last.outcome = "returned"
    /\ last.status = "active"

\* C4: within a scenario no executeStep call follows a call that raised,
\* and the scenario is counted as passed only when as many calls completed
\* without error as the scenario has steps.
C4_FailFastWithinScenario ==
    /\ \A p \in Events({"raise", "not_iterable"}) :
           \A q \in Events({"ok", "raise"}) : q <= p
    /\ Events({"pass"}) # {} =>
           /\ Events({"raise", "not_iterable"}) = {}
           /\ nSteps.defined
           /\ Cardinality(Events({"ok"})) = nSteps.length

C4_Witness ==
    /\ nSteps.defined
    /\ nSteps.length = 2
    /\ trace = <<"raise", "shot", "fail">>

\* C5: a spec in which a step raised still returns its result, has run all
\* its scenarios, and counts one failure for each scenario whose step raised.
C5_StepErrorAbortsOnlyScenario ==
    (last.outcome # "none" /\ last.stepFails > 0) =>
        /\ last.outcome = "returned"
        /\ last.ran = last.nScen.length
        /\ last.failed >= last.stepFails
        /\ last.passed + last.failed = last.nScen.length

\* C6: whenever main stands between two spec files or has exited, every
\* browser that runSpec launched has been closed.
C6_BrowserClosedAfterEverySpec ==
    pc \in {"loop", "exited"} => browsersOpen = 0

\* C7: an executeStep call on a step that holds an identifier outside the
\* supported actions, at any position, raises the unknown-action error that
\* names that identifier.
C7_UnknownActionAlwaysRaises ==
    \A n \in 1..Len(lastCall.step) :
        lastCall.step[n] \notin SupportedActions =>
            /\ ~lastCall.ok
            /\ lastCall.kind = "Unknown action"
            /\ lastCall.names = lastCall.step[n]

\* C8: the status of every SpecResult that runSpec returns, and that main
\* uses as a key into the summary, is draft or active.
C8_ResultStatusIsDraftOrActive ==
    last.outcome = "returned" => last.status \in {"draft", "active"}

\* The file name the failure screenshot of a scenario must get, written
\* from the description: the last character of every whitespace run gives
\* one '-', every other character its lower-case form.
NormalisedName(text) ==
    LET kept == {n \in 1..Len(text) :
                    \/ ~IsSpace(text[n])
                    \/ n = Len(text)
                    \/ ~IsSpace(text[n + 1])}
        nth(j) == CHOOSE n \in kept : Cardinality({m \in kept : m < n}) = j - 1
    IN [j \in 1..Cardinality(kept) |->
           IF IsSpace(text[nth(j)]) THEN "-" ELSE ToLowerChar(text[nth(j)])]

BaseNameOfArg(n) ==
    IF n % 2 = 1 THEN <<"L", "o", "g">> ELSE <<"p", "w", ".", "y", "m", "l">>

C10_SummaryIsSumOfSpecResults ==
    Ran => /\ results.active = expected.active
           /\ results.draft.passed = expected.draft.passed
           /\ results.draft.failed = expected.draft.failed + loadFails
====
